---------------------------- MODULE Spec2Model ----------------------------
(***************************************************************************)
(* Model of backend/pii_scanner.py: the lazily loaded model detectors      *)
(* (spaCy, HF NER primary/secondary, zero-shot classifier), the regex      *)
(* detector, scan_text, _dedupe_findings, redact_text and                  *)
(* score_privacy_risk.                                                     *)
(*                                                                         *)
(* Conventions.  A text is a sequence of one-character strings; Python     *)
(* offsets are 0-based, so the character at offset i is text[i + 1].       *)
(* A nullable offset is <<>> (None) or <<n>>.  A confidence is kept in     *)
(* tenths (0.9 is 9).                                                      *)
(***************************************************************************)
EXTENDS Integers, Sequences, FiniteSets, TLC

VARIABLES
    SPACY_AVAILABLE,        \* _SPACY_AVAILABLE (set by the import-time _check_spacy())
    TRANSFORMERS_AVAILABLE, \* _TRANSFORMERS_AVAILABLE: "None" | "True" | "False"
    HF_NER,                 \* _HF_NER: "None" | "primary" | "secondary"
    HF_CLASSIFIER,          \* _HF_CLASSIFIER: "None" | "loaded"
    SPACY_NLP,              \* _SPACY_NLP: "None" | "loaded"
    loads,                  \* history: per backing model, the load calls made so far
    failed,                 \* history: the backing models with a load that has failed
    calls,                  \* history: number of scan_text / redact_text calls started
    workload,               \* name of the workload: the callers and what they draw from
    frame,                  \* per caller: position in scan_text / redact_text and locals
    input,                  \* a direct call of a helper function: its arguments
    output                  \* ... and what it returned

globals == <<SPACY_AVAILABLE, TRANSFORMERS_AVAILABLE, HF_NER, HF_CLASSIFIER, SPACY_NLP>>
history == <<loads, failed, calls>>
process == <<globals, history, workload, frame>>
vars == <<process, input, output>>

-----------------------------------------------------------------------------
(* Bounds of the model.                                                    *)

MaxCalls == 1       \* calls one behaviour of the sequential workload starts
MaxRaceCalls == 2   \* calls one behaviour of the racing workload starts
MaxSpacyEnts == 1   \* entities one spaCy inference returns
MaxHfEnts == 2      \* entities one HF NER inference returns
MaxSpans == 2       \* findings handed to the span merge of redact_text directly
MaxFindings == 3    \* findings handed to _dedupe_findings directly
MaxResubmitCalls == 2   \* calls one behaviour of the resubmitting workload starts
MaxScored == 3      \* findings handed to score_privacy_risk directly

-----------------------------------------------------------------------------
(* Python values.                                                          *)

None == <<>>
Some(n) == <<n>>

\* x or 0, for a nullable integer x
OrZero(o) == IF o = None THEN 0 ELSE o[1]

\* x or "", for a nullable string x
OrEmpty(o) == IF o = None THEN "" ELSE o[1]

Min2(a, b) == IF a <= b THEN a ELSE b
Max2(a, b) == IF a >= b THEN a ELSE b

\* Python's seq[a:b] for arbitrary integers a, b (negative indices count from
\* the end, everything is clamped to the sequence).
SliceIndex(n, i) == IF i < 0 THEN Max2(i + n, 0) ELSE Min2(i, n)

PySlice(s, a, b) ==
    LET lo == SliceIndex(Len(s), a)
        hi == SliceIndex(Len(s), b)
    IN  IF lo >= hi THEN <<>> ELSE SubSeq(s, lo + 1, hi)

\* seq[a:]
PySliceFrom(s, a) == PySlice(s, a, Len(s))

-----------------------------------------------------------------------------
(* Character classes of the patterns in PII_PATTERNS.                      *)

Digits == {"0", "1", "2", "3", "4", "5", "6", "7", "8", "9"}

Letters ==
    {"a", "b", "c", "d", "e", "f", "g", "h", "i", "j", "k", "l", "m",
     "n", "o", "p", "q", "r", "s", "t", "u", "v", "w", "x", "y", "z",
     "A", "B", "C", "D", "E", "F", "G", "H", "I", "J", "K", "L", "M",
     "N", "O", "P", "Q", "R", "S", "T", "U", "V", "W", "X", "Y", "Z"}

\* \w
WordChars == Letters \cup Digits \cup {"_"}

\* \s
SpaceChars == {" ", "\t", "\n", "\r", "\f"}

\* [a-zA-Z0-9._%+-]
EmailLocalChars == Letters \cup Digits \cup {".", "_", "%", "+", "-"}

\* [a-zA-Z0-9.-]
EmailDomainChars == Letters \cup Digits \cup {".", "-"}

\* the character at Python offset i is in class cls
InClass(text, i, cls) == i >= 0 /\ i < Len(text) /\ text[i + 1] \in cls

\* \b at offset i
WordBoundary(text, i) == InClass(text, i - 1, WordChars) # InClass(text, i, WordChars)

\* the first offset >= i whose character is not in cls (Len(text) if none)
RECURSIVE RunEnd(_, _, _)
RunEnd(text, i, cls) ==
    IF InClass(text, i, cls) THEN RunEnd(text, i + 1, cls) ELSE i

\* \d{n} at offset i
DigitsAt(text, i, n) == \A k \in 0 .. n - 1 : InClass(text, i + k, Digits)

\* [seps]? at offset i: the offset after it.  The optional separator is taken
\* whenever present: leaving it would need a digit where the separator stands.
SkipSep(text, i, seps) == IF InClass(text, i, seps) THEN i + 1 ELSE i

-----------------------------------------------------------------------------
(* The four patterns.  Each XxxMatchAt(text, i) is the end offset of the   *)
(* match re would find starting at offset i, or -1 when there is none.     *)

\* [a-zA-Z0-9._%+-]+@[a-zA-Z0-9.-]+\.[a-zA-Z]{2,}
EmailMatchAt(text, i) ==
    LET at == RunEnd(text, i, EmailLocalChars)      \* greedy local part
        domEnd == RunEnd(text, at + 1, EmailDomainChars)
        \* backtracking of the greedy domain: the last "." followed by 2+ letters
        dots == {p \in at + 2 .. domEnd - 1 :
                    /\ text[p + 1] = "."
                    /\ RunEnd(text, p + 1, Letters) - (p + 1) >= 2}
        dot == CHOOSE p \in dots : \A q \in dots : q <= p
    IN  IF at > i /\ InClass(text, at, {"@"}) /\ dots # {}
        THEN RunEnd(text, dot + 1, Letters)
        ELSE -1

\* \b\d{3}[-.]?\d{3}[-.]?\d{4}\b
PhoneMatchAt(text, i) ==
    LET g2 == SkipSep(text, i + 3, {"-", "."})
        g3 == SkipSep(text, g2 + 3, {"-", "."})
    IN  IF /\ WordBoundary(text, i)
           /\ DigitsAt(text, i, 3)
           /\ DigitsAt(text, g2, 3)
           /\ DigitsAt(text, g3, 4)
           /\ WordBoundary(text, g3 + 4)
        THEN g3 + 4
        ELSE -1

\* \b\d{3}-\d{2}-\d{4}\b
SsnMatchAt(text, i) ==
    IF /\ WordBoundary(text, i)
       /\ DigitsAt(text, i, 3)
       /\ InClass(text, i + 3, {"-"})
       /\ DigitsAt(text, i + 4, 2)
       /\ InClass(text, i + 6, {"-"})
       /\ DigitsAt(text, i + 7, 4)
       /\ WordBoundary(text, i + 11)
    THEN i + 11
    ELSE -1

\* \b\d{4}[-\s]?\d{4}[-\s]?\d{4}[-\s]?\d{4}\b
CreditCardMatchAt(text, i) ==
    LET seps == {"-"} \cup SpaceChars
        g2 == SkipSep(text, i + 4, seps)
        g3 == SkipSep(text, g2 + 4, seps)
        g4 == SkipSep(text, g3 + 4, seps)
    IN  IF /\ WordBoundary(text, i)
           /\ DigitsAt(text, i, 4)
           /\ DigitsAt(text, g2, 4)
           /\ DigitsAt(text, g3, 4)
           /\ DigitsAt(text, g4, 4)
           /\ WordBoundary(text, g4 + 4)
        THEN g4 + 4
        ELSE -1

\* the pattern kinds, in the insertion order of the PII_PATTERNS dict
PII_PATTERNS == <<"email", "phone", "ssn", "credit_card">>

MatchAt(kind, text, i) ==
    CASE kind = "email" -> EmailMatchAt(text, i)
      [] kind = "phone" -> PhoneMatchAt(text, i)
      [] kind = "ssn" -> SsnMatchAt(text, i)
      [] kind = "credit_card" -> CreditCardMatchAt(text, i)

\* pattern.finditer(text): the leftmost match at or after pos, then on from its
\* end; the matches as <<start, end>> pairs
RECURSIVE FindIter(_, _, _)
FindIter(kind, text, pos) ==
    IF pos >= Len(text) THEN <<>>
    ELSE LET e == MatchAt(kind, text, pos)
         IN  IF e < 0 THEN FindIter(kind, text, pos + 1)
             ELSE <<(<<pos, e>>)>> \o FindIter(kind, text, e)

-----------------------------------------------------------------------------
(* Findings.                                                               *)

Finding(type, value, start, end, source, confidence) ==
    [type |-> type, value |-> value, start |-> start, end |-> end,
     source |-> source, confidence |-> confidence]

\* the findings of the matches with the bug of leaving the offsets out
RECURSIVE RegexFindingsNoOffsets(_, _, _)
RegexFindingsNoOffsets(kind, text, matches) ==
    IF matches = <<>> THEN <<>>
    ELSE LET m == Head(matches)
         IN  <<Finding(kind, SubSeq(text, m[1] + 1, m[2]), None, None, "regex", 9)>>
             \o RegexFindingsNoOffsets(kind, text, Tail(matches))

RECURSIVE RegexFindings(_, _, _)
RegexFindings(kind, text, matches) ==
    IF matches = <<>> THEN <<>>
    ELSE LET m == Head(matches)
         IN  <<Finding(kind, SubSeq(text, m[1] + 1, m[2]), Some(m[1]), Some(m[2]),
                       "regex", 9)>>
             \o RegexFindings(kind, text, Tail(matches))

\* _regex_scan: every match of every pattern, pattern by pattern
RECURSIVE RegexScanFrom(_, _)
RegexScanFrom(text, k) ==
    IF k > Len(PII_PATTERNS) THEN <<>>
    ELSE RegexFindings(PII_PATTERNS[k], text, FindIter(PII_PATTERNS[k], text, 0))
         \o RegexScanFrom(text, k + 1)

RegexScan(text) == RegexScanFrom(text, 1)

\* the deduplication key (type, value, start, end)
FindingKey(f) == <<f.type, f.value, f.start, f.end>>

\* the sort key with the bug of ordering the ends ascending
SortKeyEndAscending(f) == <<OrZero(f.start), OrZero(f.end)>>

\* the sort key of _dedupe_findings: (start or 0, -(end or 0))
SortKey(f) == <<OrZero(f.start), 0 - OrZero(f.end)>>

\* tuple comparison a <= b on pairs of integers
PairLE(a, b) == a[1] < b[1] \/ (a[1] = b[1] /\ a[2] <= b[2])

\* the insertion of a sort that is not stable: x goes before the elements whose
\* key equals its own
RECURSIVE InsertByKeyUnstable(_, _)
InsertByKeyUnstable(sorted, x) ==
    IF sorted = <<>> THEN <<x>>
    ELSE IF PairLE(SortKey(Head(sorted)), SortKey(x)) /\ SortKey(Head(sorted)) # SortKey(x)
         THEN <<Head(sorted)>> \o InsertByKeyUnstable(Tail(sorted), x)
         ELSE <<x>> \o sorted

\* sorted(findings, key=SortKey) is stable: x goes after every element whose
\* key is <= its own
RECURSIVE InsertByKey(_, _)
InsertByKey(sorted, x) ==
    IF sorted = <<>> THEN <<x>>
    ELSE IF PairLE(SortKey(Head(sorted)), SortKey(x))
         THEN <<Head(sorted)>> \o InsertByKey(Tail(sorted), x)
         ELSE <<x>> \o sorted

RECURSIVE SortFindings(_, _)
SortFindings(findings, acc) ==
    IF findings = <<>> THEN acc
    ELSE SortFindings(Tail(findings), InsertByKey(acc, Head(findings)))

\* the same loop with the bug of comparing each finding with its predecessor only
RECURSIVE DedupeWalkAdjacent(_, _, _)
DedupeWalkAdjacent(sorted, seen, out) ==
    IF sorted = <<>> THEN out
    ELSE LET f == Head(sorted)
         IN  IF out # <<>> /\ FindingKey(out[Len(out)]) = FindingKey(f)
             THEN DedupeWalkAdjacent(Tail(sorted), seen, out)
             ELSE DedupeWalkAdjacent(Tail(sorted), seen, Append(out, f))

\* the same loop with the bug of keeping the last finding of a key for the first
RECURSIVE DedupeWalkKeepLast(_, _, _)
DedupeWalkKeepLast(sorted, seen, out) ==
    IF sorted = <<>> THEN out
    ELSE LET f == Head(sorted)
         IN  IF FindingKey(f) \in seen
             THEN DedupeWalkKeepLast(Tail(sorted), seen,
                    [k \in 1 .. Len(out) |->
                        IF FindingKey(out[k]) = FindingKey(f) THEN f ELSE out[k]])
             ELSE DedupeWalkKeepLast(Tail(sorted), seen \cup {FindingKey(f)},
                                     Append(out, f))

\* the loop of _dedupe_findings over the sorted list
RECURSIVE DedupeWalk(_, _, _)
DedupeWalk(sorted, seen, out) ==
    IF sorted = <<>> THEN out
    ELSE LET f == Head(sorted)
         IN  IF FindingKey(f) \in seen
             THEN DedupeWalk(Tail(sorted), seen, out)
             ELSE DedupeWalk(Tail(sorted), seen \cup {FindingKey(f)}, Append(out, f))

\* _dedupe_findings
DedupeFindings(findings) == DedupeWalk(SortFindings(findings, <<>>), {}, <<>>)

-----------------------------------------------------------------------------
(* redact_text after its scan.                                             *)

\* [(start, end) for f in findings if start is not None and end is not None]
RECURSIVE SpansOf(_)
SpansOf(findings) ==
    IF findings = <<>> THEN <<>>
    ELSE LET f == Head(findings)
         IN  (IF f.start # None /\ f.end # None
              THEN <<(<<f.start[1], f.end[1]>>)>> ELSE <<>>)
             \o SpansOf(Tail(findings))

\* sorted(spans, key=lambda x: x[0]), stable
RECURSIVE InsertByStart(_, _)
InsertByStart(sorted, x) ==
    IF sorted = <<>> THEN <<x>>
    ELSE IF Head(sorted)[1] <= x[1]
         THEN <<Head(sorted)>> \o InsertByStart(Tail(sorted), x)
         ELSE <<x>> \o sorted

RECURSIVE SortSpans(_, _)
SortSpans(spans, acc) ==
    IF spans = <<>> THEN acc
    ELSE SortSpans(Tail(spans), InsertByStart(acc, Head(spans)))

\* the merge loop with the bug of s >= merged[-1][1]: touching spans stay apart
RECURSIVE MergeLoopNoTouch(_, _)
MergeLoopNoTouch(spans, merged) ==
    IF spans = <<>> THEN merged
    ELSE LET s == Head(spans)[1]
             e == Head(spans)[2]
             n == Len(merged)
         IN  IF n = 0 \/ s >= merged[n][2]
             THEN MergeLoopNoTouch(Tail(spans), Append(merged, <<s, e>>))
             ELSE MergeLoopNoTouch(Tail(spans),
                    [merged EXCEPT ![n] = <<merged[n][1], Max2(merged[n][2], e)>>])

\* the merge loop: a span starts a new merged span when its start is beyond the
\* running end, and otherwise extends the running span
RECURSIVE MergeLoop(_, _)
MergeLoop(spans, merged) ==
    IF spans = <<>> THEN merged
    ELSE LET s == Head(spans)[1]
             e == Head(spans)[2]
             n == Len(merged)
         IN  IF n = 0 \/ s > merged[n][2]
             THEN MergeLoop(Tail(spans), Append(merged, <<s, e>>))
             ELSE MergeLoop(Tail(spans),
                            [merged EXCEPT ![n] = <<merged[n][1], Max2(merged[n][2], e)>>])

MergeSpans(spans) == MergeLoop(SortSpans(spans, <<>>), <<>>)

\* the rebuild loop: parts alternates gaps and placeholders, last is the offset
\* the next gap starts at
RECURSIVE RebuildLoop(_, _, _, _, _)
RebuildLoop(text, merged, placeholder, parts, last) ==
    IF merged = <<>> THEN Append(parts, PySliceFrom(text, last))
    ELSE LET s == Head(merged)[1]
             e == Head(merged)[2]
         IN  RebuildLoop(text, Tail(merged), placeholder,
                         parts \o <<PySlice(text, last, s), placeholder>>, e)

\* "".join(parts)
RECURSIVE Join(_)
Join(parts) == IF parts = <<>> THEN <<>> ELSE Head(parts) \o Join(Tail(parts))

\* pattern.sub(placeholder, text): every match of the pattern replaced
RECURSIVE SubLoop(_, _, _, _)
SubLoop(text, matches, placeholder, last) ==
    IF matches = <<>> THEN PySliceFrom(text, last)
    ELSE PySlice(text, last, Head(matches)[1]) \o placeholder
         \o SubLoop(text, Tail(matches), placeholder, Head(matches)[2])

Sub(kind, text, placeholder) == SubLoop(text, FindIter(kind, text, 0), placeholder, 0)

\* the fallback with the bug of substituting the first pattern only
RECURSIVE SubAllFromFirstOnly(_, _, _)
SubAllFromFirstOnly(text, placeholder, k) ==
    IF k > 1 THEN text
    ELSE SubAllFromFirstOnly(Sub(PII_PATTERNS[k], text, placeholder), placeholder, k + 1)

\* the fallback: the patterns are substituted one after the other, each over the
\* result of the one before
RECURSIVE SubAllFrom(_, _, _)
SubAllFrom(text, placeholder, k) ==
    IF k > Len(PII_PATTERNS) THEN text
    ELSE SubAllFrom(Sub(PII_PATTERNS[k], text, placeholder), placeholder, k + 1)

\* redact_text given the findings of its scan: the returned text, with the
\* branch taken and the parts it was joined from
RedactWith(text, findings, placeholder) ==
    LET spans == SpansOf(findings)
    IN  IF spans = <<>>
        THEN [path |-> "fallback", parts |-> <<>>, merged |-> <<>>,
              out |-> SubAllFrom(text, placeholder, 1)]
        ELSE LET merged == MergeSpans(spans)
                 parts == RebuildLoop(text, merged, placeholder, <<>>, 0)
             IN  [path |-> "spans", parts |-> parts, merged |-> merged,
                  out |-> Join(parts)]

-----------------------------------------------------------------------------
(* score_privacy_risk.  It reads only f.get("type") of a finding, which is *)
(* None when the key is missing or null: a scored finding is a record with *)
(* a nullable type.                                                        *)

\* str.lower() on the labels of the model
Lower(label) ==
    CASE label = "PERSON" -> "person"
      [] label = "PER" -> "per"
      [] label = "SSN" -> "ssn"
      [] label = "EMAIL" -> "email"
      [] OTHER -> label

\* the weights with the bug of counting the entity kinds as unknown kinds
WeightEntityAsOther(type) ==
    LET t == Lower(OrEmpty(type))
    IN  IF t \in {"ssn", "credit_card"} THEN 35
        ELSE IF t \in {"email", "phone"} THEN 20
        ELSE 5

\* what one finding adds to the score (lines 198-206)
Weight(type) ==
    LET t == Lower(OrEmpty(type))
    IN  IF t \in {"ssn", "credit_card"} THEN 35
        ELSE IF t \in {"email", "phone"} THEN 20
        ELSE IF t \in {"person", "org", "gpe"} THEN 10
        ELSE 5

RECURSIVE ScoreLoop(_, _)
ScoreLoop(findings, score) ==
    IF findings = <<>> THEN score
    ELSE ScoreLoop(Tail(findings), score + Weight(Head(findings).type))

\* the score with the bug of returning the sum as it is
ScorePrivacyRiskUnclamped(findings) ==
    IF findings = <<>> THEN 0 ELSE ScoreLoop(findings, 0)

\* the score with the bug of wrapping around at 100 instead of stopping there
ScorePrivacyRiskWrapped(findings) ==
    IF findings = <<>> THEN 0 ELSE ScoreLoop(findings, 0) % 101

\* score_privacy_risk
ScorePrivacyRisk(findings) ==
    IF findings = <<>> THEN 0 ELSE Min2(ScoreLoop(findings, 0), 100)

-----------------------------------------------------------------------------
(* The model detectors' answers.  What a loaded model returns for a text   *)
(* is not decided by this code: it is drawn from the workload.             *)

\* a spaCy entity (ent.label_, ent.text, ent.start_char, ent.end_char)
SpacyEnt(span) == [label_ |-> "PERSON", text |-> <<"x">>, start_char |-> span[1],
                   end_char |-> span[2]]

\* an HF NER entity dict; float(score) raises for a score of None
HfEnt(span, score) == [entity_group |-> "PER", word |-> <<"x">>, start |-> span[1],
                       end |-> span[2], score |-> score]

\* entities with a label and a text of their own
SpacyEntOf(label, text, span) ==
    [label_ |-> label, text |-> text, start_char |-> span[1], end_char |-> span[2]]

HfEntOf(group, word, span, score) ==
    [entity_group |-> group, word |-> word, start |-> span[1], end |-> span[2],
     score |-> score]

\* sequences over S of length at most n
RECURSIVE SeqsUpTo(_, _)
SeqsUpTo(S, n) ==
    IF n = 0 THEN {<<>>}
    ELSE LET shorter == SeqsUpTo(S, n - 1)
         IN  shorter \cup {Append(q, x) : q \in {r \in shorter : Len(r) = n - 1}, x \in S}

SpacyAnswers(spans, n) == SeqsUpTo({SpacyEnt(sp) : sp \in spans}, n)

HfAnswers(spans, n) ==
    SeqsUpTo({HfEnt(sp, Some(9)) : sp \in spans} \cup {HfEnt(<<None, None>>, None)}, n)

\* the loop of _spacy_scan over doc.ents
RECURSIVE SpacyResults(_)
SpacyResults(ents) ==
    IF ents = <<>> THEN <<>>
    ELSE LET ent == Head(ents)
         IN  <<Finding(Lower(ent.label_), ent.text, ent.start_char, ent.end_char,
                       "spacy", 8)>>
             \o SpacyResults(Tail(ents))

\* the loop of _hf_ner_scan over ents, inside its try: the results appended
\* until float(score) raises; except: pass keeps what was appended
RECURSIVE HfResults(_)
HfResults(ents) ==
    IF ents = <<>> THEN <<>>
    ELSE LET ent == Head(ents)
         IN  IF ent.score = None THEN <<>>
             ELSE <<Finding(Lower(ent.entity_group), ent.word, ent.start, ent.end,
                            "hf_ner", ent.score[1])>>
                  \o HfResults(Tail(ents))

-----------------------------------------------------------------------------
(* Callers.                                                                *)

NoRet == [status |-> "none"]

IdleFrame ==
    [pc |-> "idle", op |-> "scan", text |-> <<>>, placeholder |-> <<>>,
     use_regex |-> FALSE, use_spacy |-> FALSE, use_hf |-> FALSE,
     findings |-> <<>>, site |-> "none", spacyRet |-> <<>>, hfRet |-> <<>>,
     events |-> {}, resubmitted |-> FALSE, ret |-> NoRet]

\* the return of scan_text, and for redact_text the rest of it
ReturnFindings(f) ==
    LET found == DedupeFindings(f.findings)
    IN  [f EXCEPT !.pc = "idle", !.findings = <<>>, !.site = "none",
                  !.ret = IF f.op = "scan"
                          THEN [status |-> "ok", findings |-> found]
                          ELSE [status |-> "ok", findings |-> found,
                                redacted |-> RedactWith(f.text, found, f.placeholder)]]

\* an exception leaves scan_text (and redact_text, which has no handler either)
Propagate(f, what) ==
    [f EXCEPT !.pc = "idle", !.findings = <<>>, !.site = "none",
              !.events = @ \cup {what}, !.ret = [status |-> "raised"]]

\* scan_text after line 154, and after line 156
AfterSpacy(f) == [f EXCEPT !.pc = IF f.use_hf THEN "hf" ELSE "clf"]
AfterHf(f) == [f EXCEPT !.pc = "clf"]

\* the handler a raising _init_hf_models() meets: in _hf_ner_scan (lines 116-117)
\* return results, still empty; in scan_text (lines 161-162) return the
\* deduplicated findings
OnInitRaisePropagates(f) == Propagate(f, "init_raised_" \o f.site)

OnInitRaise(f) ==
    LET g == [f EXCEPT !.events = @ \cup {"init_raised_" \o f.site}]
    IN  IF f.site = "hf" THEN AfterHf([g EXCEPT !.hfRet = <<>>]) ELSE ReturnFindings(g)

\* _init_hf_models() returns to where it was called from
InitReturn(f) ==
    IF f.site = "hf" THEN [f EXCEPT !.pc = "hf_run"] ELSE ReturnFindings(f)

\* the same with the bug of dropping what the other detectors found
UnavailableDropsFindings(f, detector) ==
    [f EXCEPT !.events = @ \cup {detector \o "_unavailable"}, !.findings = <<>>]

\* a detector whose model reference is None: "if not nlp: return results" and
\* "if not _HF_NER: return results", the results still empty
Unavailable(f, detector) ==
    [f EXCEPT !.events = @ \cup {detector \o "_unavailable"}]

\* nlp(text) raises inside _spacy_scan: nothing catches it
OnSpacyRaise(f) == Propagate(f, "spacy_raised")

-----------------------------------------------------------------------------
(* The process: module state after import, and the steps of a call.  A     *)
(* step is one read or one write of a module global together with the      *)
(* local work around it; a model load and the store of its result are one  *)
(* step, since the load itself reads no shared state.                      *)

Models == {"spacy", "ner_primary", "ner_secondary", "classifier"}

X_PLACEHOLDER == <<"[", "X", "]">>

\* the threads that may call
Callers == {1, 2}

\* one caller at a time, any options; the model detectors answer with spans
\* that are well-formed, reversed, or beyond the end of the text
Sequential ==
    [threads |-> {1},
     maxCalls |-> MaxCalls,
     ops |-> {"scan", "redact"},
     flags |-> BOOLEAN,
     texts |-> {<<"a", "b">>, <<"a", "@", "b", ".", "c", "o", " ", "z">>},
     spacyAnswers |-> SpacyAnswers({<<Some(0), Some(1)>>}, MaxSpacyEnts),
     hfAnswers |-> HfAnswers({<<Some(0), Some(1)>>, <<Some(1), Some(0)>>}, MaxHfEnts),
     placeholders |-> {X_PLACEHOLDER},
     resubmit |-> FALSE]

\* two threads serving API requests (main.py calls scan_text(text) and
\* redact_text(text) with the default options)
Racing ==
    [threads |-> {1, 2},
     maxCalls |-> MaxRaceCalls,
     ops |-> {"scan", "redact"},
     flags |-> {TRUE},
     texts |-> {<<"a", "b">>},
     spacyAnswers |-> SpacyAnswers({}, 0),
     hfAnswers |-> HfAnswers({}, 1),
     placeholders |-> {X_PLACEHOLDER},
     resubmit |-> FALSE]

\* one caller that redacts a text and may hand the redacted text to redact_text
\* again; the model detectors, when loaded, find no entity
Resubmitting ==
    [threads |-> {1},
     maxCalls |-> MaxResubmitCalls,
     ops |-> {"redact"},
     flags |-> {TRUE},
     texts |-> {<<"a", "b">>,
                <<"a", "@", "b", ".", "c", "o", " ", "z">>,
                <<"u", "@", "d", ".", "i", "o", "5", "5", "5", "-", "1", "2", "3", "-", "4", "5", "6", "7">>},
     spacyAnswers |-> SpacyAnswers({}, 0),
     hfAnswers |-> {<<>>},
     placeholders |-> {X_PLACEHOLDER},
     resubmit |-> TRUE]

\* texts with an email address and a phone number in a typical grouping: ten
\* digits after a country code, dash-separated, area code in parentheses
PHONE_FORMAT_TEXTS ==
    {<<"a", "@", "b", ".", "c", "o", " ", "+", "1", " ", "5", "5", "5", "1", "2", "3", "4", "5", "6", "7">>,
     <<"a", "@", "b", ".", "c", "o", " ", "5", "5", "5", "-", "1", "2", "3", "-", "4", "5", "6", "7">>,
     <<"a", "@", "b", ".", "c", "o", " ", "+", "1", " ", "(", "5", "5", "5", ")", " ", "1", "2", "3", "-", "4", "5", "6", "7">>}

\* one caller, any options, on the empty text and on texts with an email
\* address and a phone number; the model detectors, when loaded, find no entity
Samples ==
    [threads |-> {1},
     maxCalls |-> MaxCalls,
     ops |-> {"scan", "redact"},
     flags |-> BOOLEAN,
     texts |-> {<<>>} \cup PHONE_FORMAT_TEXTS,
     spacyAnswers |-> SpacyAnswers({}, 0),
     hfAnswers |-> {<<>>},
     placeholders |-> {X_PLACEHOLDER},
     resubmit |-> FALSE]

\* a text that is one email address
AGREE_TEXT == <<"a", "@", "b", ".", "c", "o">>

\* one caller, any options, on a text in which the model detectors, when loaded,
\* may find the very span the regex detector finds, with the same kind and value
Agreeing ==
    [threads |-> {1},
     maxCalls |-> MaxCalls,
     ops |-> {"scan"},
     flags |-> BOOLEAN,
     texts |-> {AGREE_TEXT},
     spacyAnswers |->
        SeqsUpTo({SpacyEntOf("EMAIL", AGREE_TEXT, <<Some(0), Some(Len(AGREE_TEXT))>>)},
                 MaxSpacyEnts),
     hfAnswers |->
        SeqsUpTo({HfEntOf("EMAIL", AGREE_TEXT, <<Some(0), Some(Len(AGREE_TEXT))>>, Some(5)),
                  HfEntOf("PER", AGREE_TEXT, <<Some(0), Some(Len(AGREE_TEXT))>>, Some(9))},
                 MaxHfEnts),
     placeholders |-> {X_PLACEHOLDER},
     resubmit |-> FALSE]

\* one caller redacting a text with or without a pattern match; the HF NER
\* model, when loaded, may return entities without offsets
Spanless ==
    [threads |-> {1},
     maxCalls |-> MaxCalls,
     ops |-> {"redact"},
     flags |-> {TRUE},
     texts |-> {<<"a", "b">>, <<"a", "@", "b", ".", "c", "o", " ", "z">>},
     spacyAnswers |-> SpacyAnswers({}, 0),
     hfAnswers |-> SeqsUpTo({HfEntOf("PER", <<"x">>, <<None, None>>, Some(9))}, MaxHfEnts),
     placeholders |-> {X_PLACEHOLDER},
     resubmit |-> FALSE]

\* no caller: the helper functions are called directly
Quiet ==
    [threads |-> {}, maxCalls |-> 0, ops |-> {}, flags |-> {}, texts |-> {},
     spacyAnswers |-> {}, hfAnswers |-> {}, placeholders |-> {}, resubmit |-> FALSE]

Workload(w) ==
    CASE w = "sequential" -> Sequential
      [] w = "racing" -> Racing
      [] w = "resubmitting" -> Resubmitting
      [] w = "samples" -> Samples
      [] w = "agreeing" -> Agreeing
      [] w = "spanless" -> Spanless
      [] w = "quiet" -> Quiet

InitProcess(w) ==
    /\ SPACY_AVAILABLE \in BOOLEAN
    /\ TRANSFORMERS_AVAILABLE = "None"
    /\ HF_NER = "None"
    /\ HF_CLASSIFIER = "None"
    /\ SPACY_NLP = "None"
    /\ loads = [m \in Models |-> 0]
    /\ failed = {}
    /\ calls = 0
    /\ workload = w
    /\ frame = [t \in Workload(w).threads |-> IdleFrame]

NoInput == [fn |-> "none"]
NoOutput == [fn |-> "none"]

Init == InitProcess("sequential") /\ input = NoInput /\ output = NoOutput

InitRace == InitProcess("racing") /\ input = NoInput /\ output = NoOutput

InitResubmit == InitProcess("resubmitting") /\ input = NoInput /\ output = NoOutput

InitSamples == InitProcess("samples") /\ input = NoInput /\ output = NoOutput

InitAgree == InitProcess("agreeing") /\ input = NoInput /\ output = NoOutput

InitSpanless == InitProcess("spanless") /\ input = NoInput /\ output = NoOutput

\* the text a caller may hand in again: what its last redact_text returned
Resubmittable(f) ==
    IF Workload(workload).resubmit /\ f.op = "redact" /\ f.ret.status = "ok"
    THEN {f.ret.redacted.out} ELSE {}

\* one load call for model m, successful or not
Attempt(hist, m, ok) ==
    [loads |-> [hist.loads EXCEPT ![m] = @ + 1],
     failed |-> IF ok THEN hist.failed ELSE hist.failed \cup {m}]

\* the entry with the bug of running the regex detector whatever use_regex is
CallRegexAlways(t) ==
    /\ t \in Workload(workload).threads
    /\ frame[t].pc = "idle"
    /\ calls < Workload(workload).maxCalls
    /\ \E op \in Workload(workload).ops,
          text \in Workload(workload).texts \cup Resubmittable(frame[t]),
          placeholder \in Workload(workload).placeholders, ur \in Workload(workload).flags,
          us \in Workload(workload).flags, uh \in Workload(workload).flags :
          /\ op = "redact" => ur /\ us /\ uh
          /\ frame' = [frame EXCEPT ![t] =
                [IdleFrame EXCEPT
                    !.op = op, !.text = text, !.placeholder = placeholder,
                    !.use_regex = ur, !.use_spacy = us, !.use_hf = uh,
                    !.resubmitted = text \in Resubmittable(frame[t]),
                    !.findings = RegexScan(text),
                    !.pc = IF us THEN "spacy" ELSE IF uh THEN "hf" ELSE "clf"]]
    /\ calls' = calls + 1
    /\ UNCHANGED <<globals, loads, failed, workload, input, output>>

\* scan_text(text, use_spacy, use_hf, use_regex), or redact_text(text, placeholder)
\* and its scan_text(text): entry, and the regex detector
Call(t) ==
    /\ t \in Workload(workload).threads
    /\ frame[t].pc = "idle"
    /\ calls < Workload(workload).maxCalls
    /\ \E op \in Workload(workload).ops,
          text \in Workload(workload).texts \cup Resubmittable(frame[t]),
          placeholder \in Workload(workload).placeholders, ur \in Workload(workload).flags,
          us \in Workload(workload).flags, uh \in Workload(workload).flags :
          /\ op = "redact" => ur /\ us /\ uh
          /\ frame' = [frame EXCEPT ![t] =
                [IdleFrame EXCEPT
                    !.op = op, !.text = text, !.placeholder = placeholder,
                    !.use_regex = ur, !.use_spacy = us, !.use_hf = uh,
                    !.resubmitted = text \in Resubmittable(frame[t]),
                    !.findings = IF ur THEN RegexScan(text) ELSE <<>>,
                    !.pc = IF us THEN "spacy" ELSE IF uh THEN "hf" ELSE "clf"]]
    /\ calls' = calls + 1
    /\ UNCHANGED <<globals, loads, failed, workload, input, output>>

\* _load_spacy_model, line 63
SpacyCheck(t) ==
    /\ t \in Workload(workload).threads
    /\ frame[t].pc = "spacy"
    /\ frame' = [frame EXCEPT ![t].pc =
                    IF SPACY_NLP = "None" /\ SPACY_AVAILABLE
                    THEN "spacy_load" ELSE "spacy_run"]
    /\ UNCHANGED <<globals, history, workload, input, output>>

\* _load_spacy_model, lines 64-67
SpacyLoad(t) ==
    /\ t \in Workload(workload).threads
    /\ frame[t].pc = "spacy_load"
    /\ \E ok \in BOOLEAN :
          /\ SPACY_NLP' = IF ok THEN "loaded" ELSE "None"
          /\ loads' = Attempt([loads |-> loads, failed |-> failed], "spacy", ok).loads
          /\ failed' = Attempt([loads |-> loads, failed |-> failed], "spacy", ok).failed
    /\ frame' = [frame EXCEPT ![t].pc = "spacy_run"]
    /\ UNCHANGED <<SPACY_AVAILABLE, TRANSFORMERS_AVAILABLE, HF_NER, HF_CLASSIFIER,
                   calls, workload, input, output>>

\* _load_spacy_model, line 68, and _spacy_scan, lines 96-108
SpacyRun(t) ==
    /\ t \in Workload(workload).threads
    /\ frame[t].pc = "spacy_run"
    /\ \/ /\ SPACY_NLP = "None"
          /\ frame' = [frame EXCEPT ![t] = AfterSpacy(Unavailable(frame[t], "spacy"))]
       \/ /\ SPACY_NLP # "None"
          /\ frame' = [frame EXCEPT ![t] = OnSpacyRaise(frame[t])]
       \/ /\ SPACY_NLP # "None"
          /\ \E ents \in Workload(workload).spacyAnswers :
                frame' = [frame EXCEPT ![t] =
                    AfterSpacy([frame[t] EXCEPT
                        !.spacyRet = SpacyResults(ents),
                        !.findings = @ \o SpacyResults(ents)])]
    /\ UNCHANGED <<globals, history, workload, input, output>>

\* _hf_ner_scan, line 113
HfCheck(t) ==
    /\ t \in Workload(workload).threads
    /\ frame[t].pc = "hf"
    /\ frame' = [frame EXCEPT ![t] =
                    IF HF_NER = "None"
                    THEN [frame[t] EXCEPT !.pc = "init", !.site = "hf"]
                    ELSE [frame[t] EXCEPT !.pc = "hf_run"]]
    /\ UNCHANGED <<globals, history, workload, input, output>>

\* _init_hf_models, lines 43-44 (_check_transformers imports at most once); or,
\* replaced as the tests replace it, it raises
InitEnter(t) ==
    /\ t \in Workload(workload).threads
    /\ frame[t].pc = "init"
    /\ \/ /\ frame' = [frame EXCEPT ![t] = OnInitRaise(frame[t])]
          /\ UNCHANGED TRANSFORMERS_AVAILABLE
       \/ \E av \in {"True", "False"} :
             /\ TRANSFORMERS_AVAILABLE \in {"None", av}
             /\ TRANSFORMERS_AVAILABLE' = av
             /\ frame' = [frame EXCEPT ![t] =
                            IF av = "True" THEN [frame[t] EXCEPT !.pc = "init_ner"]
                            ELSE InitReturn(frame[t])]
    /\ UNCHANGED <<SPACY_AVAILABLE, HF_NER, HF_CLASSIFIER, SPACY_NLP, history,
                   workload, input, output>>

\* _init_hf_models, line 45
InitNerCheck(t) ==
    /\ t \in Workload(workload).threads
    /\ frame[t].pc = "init_ner"
    /\ frame' = [frame EXCEPT ![t].pc =
                    IF HF_NER = "None" THEN "init_ner_load" ELSE "init_clf"]
    /\ UNCHANGED <<globals, history, workload, input, output>>

\* the same with the bug of loading the secondary model whatever the primary did
InitNerLoadBothAlways(t) ==
    /\ t \in Workload(workload).threads
    /\ frame[t].pc = "init_ner_load"
    /\ \E got \in {"primary", "secondary", "None"} :
          LET h0 == [loads |-> loads, failed |-> failed]
              h1 == Attempt(h0, "ner_primary", got = "primary")
              h2 == Attempt(h1, "ner_secondary", got # "None")
          IN  /\ HF_NER' = got
              /\ loads' = h2.loads
              /\ failed' = h2.failed
    /\ frame' = [frame EXCEPT ![t].pc = "init_clf"]
    /\ UNCHANGED <<SPACY_AVAILABLE, TRANSFORMERS_AVAILABLE, HF_CLASSIFIER, SPACY_NLP,
                   calls, workload, input, output>>

\* _init_hf_models, lines 46-52: the primary model, on failure the secondary,
\* on failure None
InitNerLoad(t) ==
    /\ t \in Workload(workload).threads
    /\ frame[t].pc = "init_ner_load"
    /\ \E got \in {"primary", "secondary", "None"} :
          LET h0 == [loads |-> loads, failed |-> failed]
              h1 == Attempt(h0, "ner_primary", got = "primary")
              h2 == IF got = "primary" THEN h1
                    ELSE Attempt(h1, "ner_secondary", got = "secondary")
          IN  /\ HF_NER' = got
              /\ loads' = h2.loads
              /\ failed' = h2.failed
    /\ frame' = [frame EXCEPT ![t].pc = "init_clf"]
    /\ UNCHANGED <<SPACY_AVAILABLE, TRANSFORMERS_AVAILABLE, HF_CLASSIFIER, SPACY_NLP,
                   calls, workload, input, output>>

\* _init_hf_models, line 53
InitClfCheck(t) ==
    /\ t \in Workload(workload).threads
    /\ frame[t].pc = "init_clf"
    /\ frame' = [frame EXCEPT ![t] =
                    IF HF_CLASSIFIER = "None"
                    THEN [frame[t] EXCEPT !.pc = "init_clf_load"]
                    ELSE InitReturn(frame[t])]
    /\ UNCHANGED <<globals, history, workload, input, output>>

\* _init_hf_models, lines 54-57
InitClfLoad(t) ==
    /\ t \in Workload(workload).threads
    /\ frame[t].pc = "init_clf_load"
    /\ \E ok \in BOOLEAN :
          /\ HF_CLASSIFIER' = IF ok THEN "loaded" ELSE "None"
          /\ loads' = Attempt([loads |-> loads, failed |-> failed], "classifier", ok).loads
          /\ failed' = Attempt([loads |-> loads, failed |-> failed], "classifier", ok).failed
    /\ frame' = [frame EXCEPT ![t] = InitReturn(frame[t])]
    /\ UNCHANGED <<SPACY_AVAILABLE, TRANSFORMERS_AVAILABLE, HF_NER, SPACY_NLP,
                   calls, workload, input, output>>

\* _hf_ner_scan, lines 118-134
HfRun(t) ==
    /\ t \in Workload(workload).threads
    /\ frame[t].pc = "hf_run"
    /\ \/ /\ HF_NER = "None"
          /\ frame' = [frame EXCEPT ![t] =
                AfterHf(Unavailable([frame[t] EXCEPT !.hfRet = <<>>], "hf"))]
       \/ /\ HF_NER # "None"
          /\ frame' = [frame EXCEPT ![t] =
                AfterHf([frame[t] EXCEPT !.hfRet = <<>>,
                                         !.events = @ \cup {"hf_pipeline_raised"}])]
       \/ /\ HF_NER # "None"
          /\ \E ents \in Workload(workload).hfAnswers :
                frame' = [frame EXCEPT ![t] =
                    AfterHf([frame[t] EXCEPT
                        !.hfRet = HfResults(ents),
                        !.findings = @ \o HfResults(ents),
                        !.events = @ \cup
                            (IF \E k \in 1 .. Len(ents) : ents[k].score = None
                             THEN {"hf_entity_raised"} ELSE {})])]
    /\ UNCHANGED <<globals, history, workload, input, output>>

\* scan_text, lines 158-164
ClfCheck(t) ==
    /\ t \in Workload(workload).threads
    /\ frame[t].pc = "clf"
    /\ frame' = [frame EXCEPT ![t] =
                    IF HF_CLASSIFIER = "None"
                    THEN [frame[t] EXCEPT !.pc = "init", !.site = "clf"]
                    ELSE ReturnFindings(frame[t])]
    /\ UNCHANGED <<globals, history, workload, input, output>>

Next ==
    \E t \in Callers :
        \/ Call(t)
        \/ SpacyCheck(t)
        \/ SpacyLoad(t)
        \/ SpacyRun(t)
        \/ HfCheck(t)
        \/ InitEnter(t)
        \/ InitNerCheck(t)
        \/ InitNerLoad(t)
        \/ InitClfCheck(t)
        \/ InitClfLoad(t)
        \/ HfRun(t)
        \/ ClfCheck(t)

Spec == Init /\ [][Next]_vars

SpecRace == InitRace /\ [][Next]_vars

SpecResubmit == InitResubmit /\ [][Next]_vars

SpecSamples == InitSamples /\ [][Next]_vars

SpecAgree == InitAgree /\ [][Next]_vars

SpecSpanless == InitSpanless /\ [][Next]_vars

-----------------------------------------------------------------------------
(* Properties of the process.                                              *)

\* the calls that have returned or raised
Returned == {t \in Workload(workload).threads : frame[t].pc = "idle" /\ frame[t].ret # NoRet}

\* what the enabled detectors handed to scan_text in the call of frame f
Collected(f) ==
    (IF f.use_regex THEN RegexScan(f.text) ELSE <<>>) \o f.spacyRet \o f.hfRet

\* a finding's span lies within the text: 0 <= start < end <= len(text)
SpanConsistent(f, text) ==
    (f.start # None /\ f.end # None)
        => (0 <= f.start[1] /\ f.start[1] < f.end[1] /\ f.end[1] <= Len(text))

\* C1: each backing model has its load attempted at most once in the life of the
\* process; in particular a load that failed is not attempted again.
C1_LoadAttemptedAtMostOnce == \A m \in Models : loads[m] <= 1

\* C2: when calls race on the first use of a model, at most one load of it takes
\* place (stated for the models no load of which has failed, so that a second
\* load is a duplicate and not a retry).
C2_OneLoadUnderRace == \A m \in Models \ failed : loads[m] <= 1

\* C3: when the loaded spaCy model raises on the text, _spacy_scan contributes
\* nothing and scan_text still returns the deduplicated findings of the other
\* detectors.
C3_SpacyFailureContained ==
    \A t \in Returned :
        "spacy_raised" \in frame[t].events
            => /\ frame[t].ret.status = "ok"
               /\ frame[t].ret.findings = DedupeFindings(Collected(frame[t]))

\* C4: a call in which _init_hf_models() raised, in _hf_ner_scan or at the
\* classifier check of scan_text, returns normally, and returns exactly the
\* deduplicated findings of the enabled detectors (the HF detector having
\* contributed nothing when it was its initialization that raised).
C4_InitFailureContained ==
    \A t \in Returned :
        frame[t].events \cap {"init_raised_hf", "init_raised_clf"} # {}
            => /\ frame[t].ret.status = "ok"
               /\ frame[t].ret.findings = DedupeFindings(Collected(frame[t]))
               /\ "init_raised_hf" \in frame[t].events => frame[t].hfRet = <<>>

C4_Witness ==
    \E t \in Returned :
        /\ {"init_raised_hf", "init_raised_clf"} \subseteq frame[t].events
        /\ frame[t].op = "scan"
        /\ frame[t].ret.status = "ok"
        /\ frame[t].ret.findings # <<>>

\* C5: a call of _hf_ner_scan in which the loaded pipeline raised, or the
\* processing of one of its entities raised, returns the empty list.
C5_HfFailureContributesNothing ==
    \A t \in Workload(workload).threads :
        frame[t].events \cap {"hf_pipeline_raised", "hf_entity_raised"} # {}
            => frame[t].hfRet = <<>>

\* C9: every finding scan_text returns with non-null start and end has
\* 0 <= start < end <= len(text).
C9_ReturnedSpansConsistent ==
    \A t \in Returned :
        frame[t].ret.status = "ok"
            => \A k \in 1 .. Len(frame[t].ret.findings) :
                  SpanConsistent(frame[t].ret.findings[k], frame[t].text)

\* the characters of text at the offsets from i on that are not in covered
RECURSIVE KeepOutside(_, _, _)
KeepOutside(text, i, covered) ==
    IF i >= Len(text) THEN <<>>
    ELSE (IF i \in covered THEN <<>> ELSE <<text[i + 1]>>)
         \o KeepOutside(text, i + 1, covered)

\* the offsets of text inside the span [start, end) of some finding
CoveredOffsets(text, findings) ==
    {i \in 0 .. Len(text) - 1 :
        \E k \in 1 .. Len(findings) :
            /\ findings[k].start # None
            /\ findings[k].end # None
            /\ findings[k].start[1] <= i
            /\ i < findings[k].end[1]}

\* the gaps of a rebuilt text (parts alternates gap, placeholder, ..., gap), joined
RECURSIVE JoinGaps(_)
JoinGaps(parts) ==
    IF Len(parts) <= 1 THEN Join(parts)
    ELSE Head(parts) \o JoinGaps(Tail(Tail(parts)))

\* the finished redact_text calls
Redacted ==
    {t \in Returned : frame[t].op = "redact" /\ frame[t].ret.status = "ok"}

\* C6: redact_text keeps the characters outside the detected spans, unchanged
\* and in order, and keeps no character that lies inside a detected span.
C6_OutsideKeptInsideReplaced ==
    \A t \in Redacted :
        LET f == frame[t]
            r == f.ret.redacted
        IN  IF r.path = "spans"
            THEN JoinGaps(r.parts)
                    = KeepOutside(f.text, 0, CoveredOffsets(f.text, f.ret.findings))
            ELSE r.out = f.text

\* the findings whose span is consistent with the text
ConsistentOnly(findings, text) ==
    SelectSeq(findings, LAMBDA x : SpanConsistent(x, text))

\* C8: redact_text returns what it would return were the findings with an
\* inconsistent span (start < 0, end > len(text), start >= end) absent.
C8_InconsistentSpansExcluded ==
    \A t \in Redacted :
        LET f == frame[t]
        IN  f.ret.redacted.out
              = RedactWith(f.text, ConsistentOnly(f.ret.findings, f.text),
                           f.placeholder).out

\* C12: redact_text is idempotent on its own output: a redacted text handed to
\* redact_text again, with the same placeholder (which holds no PII pattern),
\* comes back unchanged.
C12_RedactIdempotent ==
    \A t \in Redacted :
        frame[t].resubmitted => frame[t].ret.redacted.out = frame[t].text

\* the finished scan_text calls
Scanned == {t \in Returned : frame[t].op = "scan"}

\* C16: scan_text with use_regex, use_spacy and use_hf all false returns the
\* empty list, whatever the text and the model references, also when the model
\* initialization it still runs fails or raises.
C16_AllDisabledReturnsEmpty ==
    \A t \in Scanned :
        (~frame[t].use_regex /\ ~frame[t].use_spacy /\ ~frame[t].use_hf)
            => frame[t].ret = [status |-> "ok", findings |-> <<>>]

\* all detectors disabled on a text with an email address, _init_hf_models()
\* raising at the classifier check
C16_Witness ==
    \E t \in Scanned :
        /\ ~frame[t].use_regex /\ ~frame[t].use_spacy /\ ~frame[t].use_hf
        /\ RegexScan(frame[t].text) # <<>>
        /\ "init_raised_clf" \in frame[t].events
        /\ frame[t].ret.status = "ok"

\* what scan_text returns for the call of frame f with the detector disabled
ScanWithout(f, detector) ==
    DedupeFindings((IF f.use_regex THEN RegexScan(f.text) ELSE <<>>)
                   \o (IF detector = "spacy" THEN <<>> ELSE f.spacyRet)
                   \o (IF detector = "hf" THEN <<>> ELSE f.hfRet))

\* C17: a scan_text call with a model detector enabled whose model is
\* unavailable (spaCy not importable or its model not loadable; transformers
\* not importable or both NER models not loadable) returns the finding list it
\* returns with that detector disabled, whatever the other options.
C17_UnavailableAsDisabled ==
    \A t \in Scanned :
        \A detector \in {"spacy", "hf"} :
            (detector \o "_unavailable") \in frame[t].events
                => /\ frame[t].ret.status = "ok"
                   /\ frame[t].ret.findings = ScanWithout(frame[t], detector)

\* both model detectors enabled, the spaCy model and both NER models failing to
\* load, the regex detector finding an email address
C17_Witness ==
    \E t \in Scanned :
        /\ {"spacy_unavailable", "hf_unavailable"} \subseteq frame[t].events
        /\ {"spacy", "ner_primary", "ner_secondary"} \subseteq failed
        /\ frame[t].use_regex
        /\ frame[t].ret.status = "ok"
        /\ Len(frame[t].ret.findings) = 1

\* C19: scan_text and redact_text accept the empty string without failing,
\* whatever the state of the model references: scan_text("") returns the empty
\* list, which scores 0, and redact_text("") returns the empty string.
C19_EmptyTextAccepted ==
    \A t \in Returned :
        frame[t].text = <<>>
            => /\ frame[t].ret.status = "ok"
               /\ frame[t].ret.findings = <<>>
               /\ ScorePrivacyRisk(frame[t].ret.findings) = 0
               /\ frame[t].op = "redact" => frame[t].ret.redacted.out = <<>>

\* the kinds of the findings in a list
KindsIn(findings) == {findings[k].type : k \in 1 .. Len(findings)}

\* C20: with only the regex detector enabled, scan_text on a text with an email
\* address and a phone number in a typical grouping returns a finding of kind
\* email and a finding of kind phone, each with value = text[start:end].
C20_EmailAndPhoneFound ==
    \A t \in Scanned :
        LET f == frame[t]
        IN  (f.text \in PHONE_FORMAT_TEXTS /\ f.use_regex /\ ~f.use_spacy /\ ~f.use_hf)
                => /\ f.ret.status = "ok"
                   /\ {"email", "phone"} \subseteq KindsIn(f.ret.findings)
                   /\ \A k \in 1 .. Len(f.ret.findings) :
                         LET x == f.ret.findings[k]
                         IN  x.value = PySlice(f.text, x.start[1], x.end[1])

\* a step stores nothing in reference ref, whose models are ms: the reference
\* keeps its value and no load of one of its models takes place
Kept(ref, ms) == ref' = ref /\ \A m \in ms : loads'[m] = loads[m]

\* C21: a model reference that holds a loaded model is never changed again:
\* whatever the interleaving of the calls, no step resets it to None and no step
\* stores a second loaded instance in it.
C21_LoadedReferenceImmutable ==
    [][/\ SPACY_NLP # "None" => Kept(SPACY_NLP, {"spacy"})
       /\ HF_NER # "None" => Kept(HF_NER, {"ner_primary", "ner_secondary"})
       /\ HF_CLASSIFIER # "None" => Kept(HF_CLASSIFIER, {"classifier"})]_vars

\* a step makes a load call for model m
Loads(m) == loads'[m] # loads[m]

\* a step that loads NER models: the primary is attempted first, the secondary
\* only when the primary has failed, and the caller goes on to the classifier
NerLoadOrder ==
    (Loads("ner_primary") \/ Loads("ner_secondary")) =>
        /\ TRANSFORMERS_AVAILABLE = "True" /\ HF_NER = "None"
        /\ loads'["ner_primary"] = loads["ner_primary"] + 1
        /\ HF_NER' = "primary" => ~Loads("ner_secondary")
        /\ HF_NER' # "primary" =>
              /\ "ner_primary" \in failed'
              /\ loads'["ner_secondary"] = loads["ner_secondary"] + 1
        /\ HF_NER' = "None" => "ner_secondary" \in failed'
        /\ ~Loads("classifier") /\ HF_CLASSIFIER' = HF_CLASSIFIER
        /\ \E t \in Workload(workload).threads :
              frame[t].pc = "init_ner_load" /\ frame'[t].pc = "init_clf"

\* a caller at the classifier check with the reference None goes on to load
ClfLoadAttempted ==
    \A t \in Workload(workload).threads :
        (frame[t].pc = "init_clf" /\ frame'[t] # frame[t] /\ HF_CLASSIFIER = "None")
            => frame'[t].pc = "init_clf_load"

\* a step that loads the classifier sets its reference by the outcome and leaves
\* the NER reference as it is
ClfLoadIndependent ==
    Loads("classifier") =>
        /\ TRANSFORMERS_AVAILABLE = "True" /\ HF_CLASSIFIER = "None"
        /\ HF_CLASSIFIER' = "loaded" \/ "classifier" \in failed'
        /\ HF_NER' = HF_NER
        /\ ~Loads("ner_primary") /\ ~Loads("ner_secondary")

\* _init_hf_models has returned to _hf_ner_scan with transformers available: the
\* NER reference tells which loads failed, and the classifier was attempted
InitHfModelsDone ==
    \A t \in Workload(workload).threads :
        (frame[t].pc = "hf_run" /\ TRANSFORMERS_AVAILABLE = "True") =>
            /\ loads["ner_primary"] >= 1
            /\ HF_NER # "primary" => "ner_primary" \in failed
            /\ HF_NER = "None" => "ner_secondary" \in failed
            /\ HF_CLASSIFIER = "loaded" \/ "classifier" \in failed

\* C22: in _init_hf_models with transformers available, the primary NER model
\* is attempted first and becomes the reference if its load succeeds; the
\* secondary is attempted only after the primary has failed and becomes the
\* reference if its load succeeds; if both fail the reference stays None.  The
\* classifier load is attempted whenever the classifier reference is None,
\* whatever the NER outcome, and its outcome leaves the NER reference alone.
C22_InitHfModelsOrder ==
    /\ [][NerLoadOrder /\ ClfLoadAttempted /\ ClfLoadIndependent]_vars
    /\ []InitHfModelsDone

\* _init_hf_models has returned to _hf_ner_scan: the primary load failed, the
\* secondary succeeded, and the failed classifier load left the NER reference set
C22_Witness ==
    \E t \in Workload(workload).threads :
        /\ frame[t].pc = "hf_run"
        /\ HF_NER = "secondary"
        /\ failed = {"ner_primary", "classifier"}
        /\ loads = [m \in Models |-> IF m = "spacy" THEN loads["spacy"] ELSE 1]
        /\ HF_CLASSIFIER = "None"

\* every finding of out is, among the findings of in with its key, the first
FirstOfKeyKept(in, out) ==
    \A k \in 1 .. Len(out) :
        \E i \in 1 .. Len(in) :
            /\ in[i] = out[k]
            /\ \A j \in 1 .. i - 1 : FindingKey(in[j]) # FindingKey(out[k])

\* C23: of the findings with one (type, value, start, end) key, scan_text
\* returns the one that comes first in the combined list regex, spaCy, HF NER;
\* when the regex detector and a model detector agree on a key, the finding
\* returned is the regex one (source "regex", confidence 0.9).
C23_FirstOfKeyRetained ==
    \A t \in Scanned :
        frame[t].ret.status = "ok" =>
            LET f == frame[t]
                out == f.ret.findings
                regex == IF f.use_regex THEN RegexScan(f.text) ELSE <<>>
            IN  /\ FirstOfKeyKept(Collected(f), out)
                /\ \A k \in 1 .. Len(out) :
                      (\E i \in 1 .. Len(regex) : FindingKey(regex[i]) = FindingKey(out[k]))
                          => out[k].source = "regex" /\ out[k].confidence = 9

\* the three detectors enabled, spaCy and HF NER both returning the email
\* address the regex detector found: one finding returned, the regex one
C23_Witness ==
    \E t \in Scanned :
        /\ frame[t].use_regex
        /\ \E k \in 1 .. Len(frame[t].spacyRet) :
              FindingKey(frame[t].spacyRet[k]) = FindingKey(RegexScan(frame[t].text)[1])
        /\ \E k \in 1 .. Len(frame[t].hfRet) :
              FindingKey(frame[t].hfRet[k]) = FindingKey(RegexScan(frame[t].text)[1])
        /\ frame[t].ret.status = "ok"
        /\ frame[t].ret.findings = RegexScan(frame[t].text)

\* the callers whose call takes the step
Stepping == {t \in Workload(workload).threads : frame[t].pc # "idle" /\ frame'[t] # frame[t]}

\* a step of a call with use_spacy false loads no spaCy model and leaves
\* _SPACY_NLP as it is
SpacyUntouchedWhenDisabled ==
    \A t \in Stepping : ~frame[t].use_spacy => Kept(SPACY_NLP, {"spacy"})

\* a step of a call with use_hf false loads no HF model and leaves _HF_NER and
\* _HF_CLASSIFIER as they are
HfUntouchedWhenDisabled ==
    \A t \in Stepping :
        ~frame[t].use_hf => /\ Kept(HF_NER, {"ner_primary", "ner_secondary"})
                            /\ Kept(HF_CLASSIFIER, {"classifier"})

\* C24: a scan_text call runs only its enabled detector families: with use_hf
\* false it makes no HF model load and leaves _HF_NER and _HF_CLASSIFIER
\* unchanged, with use_spacy false it makes no spaCy model load and leaves
\* _SPACY_NLP unchanged.
C24_DisabledFamiliesLoadNothing ==
    [][SpacyUntouchedWhenDisabled /\ HfUntouchedWhenDisabled]_vars

\* C26: redact_text with the real scan_text takes the fallback branch only when
\* no pattern of PII_PATTERNS matches the text (a regex finding always carries
\* its offsets), so that whenever the fallback is taken the text is returned
\* unchanged.
C26_FallbackOnlyWithoutMatch ==
    \A t \in Redacted :
        frame[t].ret.redacted.path = "fallback"
            => /\ \A k \in 1 .. Len(PII_PATTERNS) :
                     FindIter(PII_PATTERNS[k], frame[t].text, 0) = <<>>
               /\ frame[t].ret.redacted.out = frame[t].text

\* the fallback taken with findings at hand: HF NER entities without offsets on
\* a text no pattern matches
C26_Witness ==
    \E t \in Redacted :
        /\ frame[t].ret.redacted.path = "fallback"
        /\ frame[t].ret.findings # <<>>
        /\ frame[t].ret.redacted.out = frame[t].text

-----------------------------------------------------------------------------
(* Direct calls of the helper functions, as the tests make them: the       *)
(* arguments are drawn in the initial state and one step applies the       *)
(* function.  No caller runs; the process keeps its state after import.    *)

\* nullable offsets from lo to hi
Offsets(lo, hi) == {None} \cup {Some(k) : k \in lo .. hi}

\* the text of the stubbed scans
STUB_TEXT == <<"a", "b", "c", "d">>

\* findings of a stubbed scan_text: any offsets from before the text to beyond it
SpanFindings ==
    {Finding("stub", <<"x">>, st, en, "stub", 9) :
        st \in Offsets(-1, Len(STUB_TEXT) + 1), en \in Offsets(-1, Len(STUB_TEXT) + 1)}

\* findings handed to _dedupe_findings: two kinds, offsets null or not, two sources
DedupeFindingsUniverse ==
    {Finding(ty, <<"x">>, st, en, src, 9) :
        ty \in {"email", "person"}, st \in Offsets(0, 1), en \in Offsets(1, 1),
        src \in {"regex", "hf_ner"}}

InitRedactWith ==
    /\ InitProcess("quiet")
    /\ input \in {[fn |-> "redact_text", text |-> STUB_TEXT, findings |-> fs,
                   placeholder |-> X_PLACEHOLDER] :
                     fs \in SeqsUpTo(SpanFindings, MaxSpans)}
    /\ output = NoOutput

\* redact_text(text, placeholder) with scan_text replaced by a stub that returns
\* input.findings
ApplyRedactWith ==
    /\ input.fn = "redact_text"
    /\ output = NoOutput
    /\ output' = [fn |-> "redact_text",
                  redacted |-> RedactWith(input.text, input.findings, input.placeholder)]
    /\ UNCHANGED <<process, input>>

SpecRedactWith == InitRedactWith /\ [][ApplyRedactWith]_vars

\* texts with matches of the patterns, next to each other and apart
FALLBACK_TEXTS ==
    {<<"a", "b">>,
     <<"a", "@", "b", ".", "c", "o", " ", "c", "@", "d", ".", "i", "o">>,
     <<"u", "@", "d", ".", "i", "o", "5", "5", "5", "-", "1", "2", "3", "-", "4", "5", "6", "7">>,
     <<"5", "5", "5", "-", "1", "2", "3", "-", "4", "5", "6", "7", " ", "1", "2", "3", "-", "4", "5", "-", "6", "7", "8", "9">>,
     <<"1", "2", "3", "4", " ", "5", "6", "7", "8", " ", "9", "0", "1", "2", " ", "3", "4", "5", "6">>,
     <<"a", "@", "b", ".", "c", "o", " ", "5", "5", "5", "1", "2", "3", "4", "5", "6", "7", ".">>}

\* findings of a stubbed scan_text as a model detector without offsets yields
\* them, and one with a span
FallbackFindings ==
    {Finding("person", <<"x">>, st, en, "stub", 9) :
        st \in Offsets(0, 0), en \in Offsets(1, 1)}

InitFallback ==
    /\ InitProcess("quiet")
    /\ input \in {[fn |-> "redact_text", text |-> tx, findings |-> fs,
                   placeholder |-> X_PLACEHOLDER] :
                     tx \in FALLBACK_TEXTS, fs \in SeqsUpTo(FallbackFindings, MaxSpans)}
    /\ output = NoOutput

SpecFallback == InitFallback /\ [][ApplyRedactWith]_vars

InitDedupe ==
    /\ InitProcess("quiet")
    /\ input \in {[fn |-> "_dedupe_findings", findings |-> fs] :
                     fs \in SeqsUpTo(DedupeFindingsUniverse, MaxFindings)}
    /\ output = NoOutput

\* _dedupe_findings(findings)
ApplyDedupe ==
    /\ input.fn = "_dedupe_findings"
    /\ output = NoOutput
    /\ output' = [fn |-> "_dedupe_findings", findings |-> DedupeFindings(input.findings)]
    /\ UNCHANGED <<process, input>>

SpecDedupe == InitDedupe /\ [][ApplyDedupe]_vars

\* the types of the findings handed to score_privacy_risk: missing or null,
\* empty, the weighted kinds, an unweighted label and a label in upper case
ScoredTypes ==
    {None} \cup {Some(ty) : ty \in {"", "ssn", "credit_card", "email", "phone",
                                     "person", "org", "gpe", "per", "SSN"}}

InitScore ==
    /\ InitProcess("quiet")
    /\ input \in {[fn |-> "score_privacy_risk", findings |-> fs] :
                     fs \in SeqsUpTo({[type |-> ty] : ty \in ScoredTypes}, MaxScored)}
    /\ output = NoOutput

\* score_privacy_risk(findings)
ApplyScore ==
    /\ input.fn = "score_privacy_risk"
    /\ output = NoOutput
    /\ output' = [fn |-> "score_privacy_risk", score |-> ScorePrivacyRisk(input.findings)]
    /\ UNCHANGED <<process, input>>

SpecScore == InitScore /\ [][ApplyScore]_vars

-----------------------------------------------------------------------------
(* Properties of the helper functions.                                     *)

\* the placeholders of a rebuilt text
NumPlaceholders(parts) == Len(parts) \div 2

\* spans as intervals of the text: 0 <= start < end <= len(text)
SpansConsistent(spans, text) ==
    \A k \in 1 .. Len(spans) :
        0 <= spans[k][1] /\ spans[k][1] < spans[k][2] /\ spans[k][2] <= Len(text)

\* the spans that open a group under the rule "next.start <= running.end
\* merges": those with no span before them, in order of start (and of position
\* among equal starts), that ends at or after their start
GroupOpeners(spans) ==
    {i \in 1 .. Len(spans) :
        \A j \in 1 .. Len(spans) :
            (spans[j][1] < spans[i][1] \/ (spans[j][1] = spans[i][1] /\ j < i))
                => spans[j][2] < spans[i][1]}

\* the maximal groups of intervals that overlap or touch, each named by its
\* least start: a start that no interval beginning before it reaches
GroupStarts(spans) ==
    {spans[i][1] : i \in {k \in 1 .. Len(spans) :
        \A j \in 1 .. Len(spans) :
            ~(spans[j][1] < spans[k][1] /\ spans[k][1] <= spans[j][2])}}

\* the offsets inside some span
InSpans(spans) ==
    {i \in -1 .. Len(STUB_TEXT) + 1 :
        \E k \in 1 .. Len(spans) : spans[k][1] <= i /\ i < spans[k][2]}

\* C7: redact_text emits one placeholder per group of spans formed by the rule
\* next.start <= running.end; for spans that are intervals of the text these are
\* the maximal groups of overlapping or touching spans, the merged spans cover
\* exactly their union and stay at least one character apart.
C7_OnePlaceholderPerGroup ==
    (output.fn = "redact_text" /\ output.redacted.path = "spans") =>
        LET r == output.redacted
            spans == SpansOf(input.findings)
        IN  /\ NumPlaceholders(r.parts) = Cardinality(GroupOpeners(spans))
            /\ Len(r.parts) = 2 * Len(r.merged) + 1
            /\ \A k \in 1 .. Len(r.merged) : r.parts[2 * k] = input.placeholder
            /\ r.out = Join(r.parts)
            /\ SpansConsistent(spans, input.text) =>
                  /\ NumPlaceholders(r.parts) = Cardinality(GroupStarts(spans))
                  /\ InSpans(r.merged) = InSpans(spans)
                  /\ \A k \in 1 .. Len(r.merged) - 1 : r.merged[k][2] < r.merged[k + 1][1]

\* two overlapping spans, [0,2) and [1,3), redacted to one placeholder
C7_Witness ==
    /\ output.fn = "redact_text"
    /\ SpansOf(input.findings) = <<(<<0, 2>>), (<<1, 3>>)>>
    /\ output.redacted.out = X_PLACEHOLDER \o <<"d">>

\* C10: the list _dedupe_findings returns holds no two findings with the same
\* (type, value, start, end).
C10_NoDuplicateKeys ==
    output.fn = "_dedupe_findings" =>
        \A i \in 1 .. Len(output.findings), j \in 1 .. Len(output.findings) :
            i # j => FindingKey(output.findings[i]) # FindingKey(output.findings[j])

\* the same key from two detectors, with a null offset, collapsed to one finding
C10_Witness ==
    /\ output.fn = "_dedupe_findings"
    /\ Len(input.findings) = 2
    /\ FindingKey(input.findings[1]) = FindingKey(input.findings[2])
    /\ input.findings[1].source # input.findings[2].source
    /\ input.findings[1].start = None
    /\ Len(output.findings) = 1

\* C11: _dedupe_findings is idempotent: applied to its own result it returns
\* that result, the same findings in the same order.
C11_DedupeIdempotent ==
    output.fn = "_dedupe_findings" =>
        DedupeFindings(output.findings) = output.findings

\* a result with two findings of one sort key and different keys, one of them
\* with a null start, out of a list that held a duplicate
C11_Witness ==
    /\ output.fn = "_dedupe_findings"
    /\ Len(output.findings) = 2
    /\ Len(input.findings) = 3
    /\ SortKey(output.findings[1]) = SortKey(output.findings[2])
    /\ output.findings[1].start = None
    /\ output.findings[2].start # None

\* C13: score_privacy_risk returns an integer from 0 to 100 for every finding
\* list, whatever its length and its types (missing or null types included).
C13_ScoreWithinBounds ==
    output.fn = "score_privacy_risk" =>
        output.score \in 0 .. 100

\* three findings that weigh 105 together, one of them written in upper case,
\* scored 100
C13_Witness ==
    /\ output.fn = "score_privacy_risk"
    /\ Len(input.findings) = 3
    /\ \A k \in 1 .. 3 : Lower(OrEmpty(input.findings[k].type)) = "ssn"
    /\ input.findings[3].type = Some("SSN")
    /\ output.score = 100

\* the kind of a scored finding: its lowercase label, empty when it has none
KindOf(f) == Lower(OrEmpty(f.type))

\* the findings of a list whose kind is in kinds
OfKinds(findings, kinds) == {k \in 1 .. Len(findings) : KindOf(findings[k]) \in kinds}

\* the sum of the weights 35 (ssn, credit_card), 20 (email, phone), 10 (person,
\* org, gpe) and 5 (any other kind), counted kind by kind
WeightedSum(findings) ==
    LET high == OfKinds(findings, {"ssn", "credit_card"})
        medium == OfKinds(findings, {"email", "phone"})
        entity == OfKinds(findings, {"person", "org", "gpe"})
    IN  35 * Cardinality(high) + 20 * Cardinality(medium) + 10 * Cardinality(entity)
        + 5 * (Len(findings) - Cardinality(high \cup medium \cup entity))

\* C14: score_privacy_risk(findings) is min(100, sum of the weights), the weight
\* of a finding being 35, 20, 10 or 5 by its kind; it depends on how many
\* findings of each kind there are and not on their order, score([]) is 0 and
\* score([ssn, credit_card, email]) is 90.
C14_ScoreIsClampedWeightedSum ==
    output.fn = "score_privacy_risk" =>
        /\ output.score = Min2(100, WeightedSum(input.findings))
        /\ input.findings = <<>> => output.score = 0
        /\ input.findings = <<[type |-> Some("ssn")], [type |-> Some("credit_card")],
                              [type |-> Some("email")]>> => output.score = 90

\* [email, ssn, credit_card], the example of the specification in another order
C14_Witness ==
    /\ output.fn = "score_privacy_risk"
    /\ input.findings = <<[type |-> Some("email")], [type |-> Some("ssn")],
                          [type |-> Some("credit_card")]>>
    /\ output.score = 90

\* C15: score_privacy_risk is monotonic non-decreasing: a finding appended to a
\* list never lowers its score.
C15_ScoreMonotonic ==
    output.fn = "score_privacy_risk" =>
        \A k \in 1 .. Len(input.findings) :
            ScorePrivacyRisk(SubSeq(input.findings, 1, k))
                >= ScorePrivacyRisk(SubSeq(input.findings, 1, k - 1))

\* a finding appended to a list that scores 70: the sum passes 100 and the score
\* stops there
C15_Witness ==
    /\ output.fn = "score_privacy_risk"
    /\ Len(input.findings) = 3
    /\ ScorePrivacyRisk(SubSeq(input.findings, 1, 2)) = 70
    /\ input.findings[3].type = Some("credit_card")
    /\ output.score = 100

\* the matches the fallback replaces: those of each pattern in the text the
\* patterns before it have left
RECURSIVE NumReplaced(_, _, _)
NumReplaced(text, placeholder, k) ==
    IF k > Len(PII_PATTERNS) THEN 0
    ELSE Len(FindIter(PII_PATTERNS[k], text, 0))
         + NumReplaced(Sub(PII_PATTERNS[k], text, placeholder), placeholder, k + 1)

\* the occurrences of word in text
Occurrences(text, word) ==
    {i \in 1 .. Len(text) - Len(word) + 1 : SubSeq(text, i, i + Len(word) - 1) = word}

\* C18: when the scan of redact_text yields no finding with both start and end
\* non-null, redact_text takes the fallback: it substitutes the placeholder for
\* the matches of every pattern, so that no match of any pattern remains in the
\* output and the placeholder stands once for every replaced match.
C18_FallbackReplacesEveryMatch ==
    (output.fn = "redact_text" /\ SpansOf(input.findings) = <<>>) =>
        LET r == output.redacted
        IN  /\ r.path = "fallback"
            /\ \A k \in 1 .. Len(PII_PATTERNS) : FindIter(PII_PATTERNS[k], r.out, 0) = <<>>
            /\ Cardinality(Occurrences(r.out, input.placeholder))
                  = NumReplaced(input.text, input.placeholder, 1)

\* a scan that yields only findings without a span, on a text with an email
\* address and a phone number: both replaced
C18_Witness ==
    /\ output.fn = "redact_text"
    /\ input.findings # <<>>
    /\ SpansOf(input.findings) = <<>>
    /\ Len(FindIter("email", input.text, 0)) = 1
    /\ Len(FindIter("phone", input.text, 0)) = 1
    /\ output.redacted.out = X_PLACEHOLDER \o <<" ">> \o X_PLACEHOLDER \o <<".">>

\* the keys of the findings in a list
KeysOf(findings) == {FindingKey(findings[k]) : k \in 1 .. Len(findings)}

\* finding a comes no later than finding b: start ascending, then end
\* descending, a null offset counting as 0
InOrder(a, b) ==
    \/ OrZero(a.start) < OrZero(b.start)
    \/ OrZero(a.start) = OrZero(b.start) /\ OrZero(a.end) >= OrZero(b.end)

\* C25: _dedupe_findings loses and invents nothing: the keys of its output are
\* the keys of its input, every output element is an element of the input as
\* it was, and the output is ordered by start ascending, then end descending,
\* null offsets counting as 0.
C25_DedupeKeepsKeysAndOrders ==
    output.fn = "_dedupe_findings" =>
        /\ KeysOf(output.findings) = KeysOf(input.findings)
        /\ \A k \in 1 .. Len(output.findings) :
              \E i \in 1 .. Len(input.findings) : input.findings[i] = output.findings[k]
        /\ \A k \in 1 .. Len(output.findings) - 1 :
              InOrder(output.findings[k], output.findings[k + 1])

\* three findings, two of one key, the third with the same start and a null end
\* and first in the input: it comes out last
C25_Witness ==
    /\ output.fn = "_dedupe_findings"
    /\ Len(input.findings) = 3
    /\ input.findings[1].end = None
    /\ input.findings[1].start = Some(1)
    /\ FindingKey(input.findings[2]) = FindingKey(input.findings[3])
    /\ output.findings = <<input.findings[2], input.findings[1]>>

=============================================================================
